---- MODULE Spec2Model ----
(***************************************************************************)
(* fire-db: the IdSlab write-ahead log and the MatrixSlab file             *)
(* (src/src/core/slab.h), and the GpuIndex (src/src/core/gpu.h).           *)
(*                                                                         *)
(* The log file is modelled byte by byte, 25 bytes a record, so that       *)
(* replay_log reads exactly what write_log_entry wrote.  A 64-bit field    *)
(* that replay reads is kept as its 8 little-endian bytes (a "word"): a    *)
(* read that meets the end of the file overwrites only the low bytes it    *)
(* got and leaves the rest of the variable as it was.                      *)
(***************************************************************************)
EXTENDS Integers, Sequences, FiniteSets, TLC

\* Bounds of the exploration.
MaxRecords == 3         \* complete records the log may hold
MaxUser    == 2         \* user ids are 1..MaxUser
MaxRow     == 1         \* row indices passed to insert are -1..MaxRow

\* Program constants.
OP_INSERT   == 1
OP_DELETE   == 2
WORD        == 8        \* sizeof(uint64_t), sizeof(int64_t)
RECORD_SIZE == 1 + 3 * WORD   \* sizeof(op) and three 64-bit fields: 25

Users   == 1..MaxUser
RowVals == -1..MaxRow
AutoIds == 0..MaxRecords

VARIABLES
    user_auto,   \* std::unordered_map<uint64_t, uint64_t>: a function
    auto_row,    \* std::vector<int64_t>: a sequence of words, index a+1 holds auto id a
    auto_id,     \* uint64_t auto_id (the spec's next_auto_id)
    log,         \* the bytes of the log file
    call,        \* the last operation called, its arguments and what it returned
    h_issued,    \* history: the auto ids successful inserts returned, in order
    h_ins_row,   \* history: h_ins_row[a+1] is the row passed to the insert that got auto id a
    h_last_row,  \* history: user id -> row of its most recent successful insert
    h_removed,   \* history: the auto ids remove has tombstoned
    h_nmut       \* history: the number of successful inserts and removes

mem  == <<user_auto, auto_row, auto_id>>
hist == <<h_issued, h_ins_row, h_last_row, h_removed, h_nmut>>
vars == <<user_auto, auto_row, auto_id, log, call, h_issued, h_ins_row,
          h_last_row, h_removed, h_nmut>>

\* MatrixSlab.
VARIABLES
    m_file,      \* the slab file: NoFile, or its header fields, data region and length
    m_obj,       \* the MatrixSlab object: NoObject, or its member file_size
    m_call       \* the last MatrixSlab operation called and its argument

m_vars == <<m_file, m_obj, m_call>>

\* GpuIndex.
VARIABLES
    max_vectors,    \* size_t max_vectors
    dim,            \* size_t dim
    current_count,  \* size_t current_count
    d_db,           \* device buffer of max_vectors * dim floats
    d_db_norms,     \* device buffer of max_vectors floats
    d_queries,      \* device buffer of max_batch_size * dim floats
    d_q_norms,      \* device buffer of max_batch_size floats
    d_results,      \* device buffer of max_vectors * max_batch_size floats
    g_call          \* the last GpuIndex operation called, its arguments and result

g_vars == <<max_vectors, dim, current_count, d_db, d_db_norms, d_queries,
            d_q_norms, d_results, g_call>>

all_vars == <<vars, m_vars, g_vars>>

NoFile   == [exists |-> FALSE, magic |-> 0, version |-> 0, count |-> 0, dim |-> 0,
             capacity |-> 0, data |-> <<>>, size |-> 0]
NoObject == [open |-> FALSE, file_size |-> 0]
NoCall   == [op |-> "none"]

\* No slab file and no MatrixSlab object.
MatrixAbsent == m_file = NoFile /\ m_obj = NoObject /\ m_call = NoCall

\* No GpuIndex object.
GpuAbsent ==
    /\ max_vectors = 0 /\ dim = 0 /\ current_count = 0
    /\ d_db = <<>> /\ d_db_norms = <<>> /\ d_queries = <<>>
    /\ d_q_norms = <<>> /\ d_results = <<>>
    /\ g_call = NoCall

\* No IdSlab object and no log file.
IdSlabAbsent ==
    /\ user_auto = <<>> /\ auto_row = <<>> /\ auto_id = 0 /\ log = <<>>
    /\ call = NoCall
    /\ h_issued = <<>> /\ h_ins_row = <<>> /\ h_last_row = <<>>
    /\ h_removed = {} /\ h_nmut = 0

----------------------------------------------------------------------------
\* Little-endian encodings of the fields of a record.

RECURSIVE LEBytes(_, _)
LEBytes(n, k) == IF k = 0 THEN <<>> ELSE <<n % 256>> \o LEBytes(n \div 256, k - 1)

\* uint64_t as WORD bytes.
U64(n) == LEBytes(n, WORD)

\* int64_t as WORD bytes, two's complement.
I64(n) == IF n >= 0 THEN LEBytes(n, WORD)
          ELSE [i \in 1..WORD |-> 255 - LEBytes(-n - 1, WORD)[i]]

\* The value of a uint64_t held as bytes.
RECURSIVE ToU64(_)
ToU64(w) == IF w = <<>> THEN 0 ELSE Head(w) + 256 * ToU64(Tail(w))

\* The sign of an int64_t held as bytes.
IsNegative(w) == w[WORD] >= 128

MinusOne == I64(-1)

\* std::unordered_map operations on a function.
MapPut(f, k, v) == [x \in (DOMAIN f) \cup {k} |-> IF x = k THEN v ELSE f[x]]
MapErase(f, k)  == [x \in (DOMAIN f) \ {k} |-> f[x]]
EmptyMap        == [x \in {} |-> 0]

----------------------------------------------------------------------------
\* write_log_entry: the 25 bytes one call appends.

Record(op, uid, aid, row) == <<op>> \o U64(uid) \o U64(aid) \o row

write_log_entry(file, op, uid, aid, row) == file \o Record(op, uid, aid, row)

----------------------------------------------------------------------------
\* replay_log.

\* The members of a newly constructed IdSlab.
Fresh == [user_auto |-> EmptyMap, auto_row |-> <<>>, auto_id |-> 0]

\* logfile.read(&var, 8) at offset pos, var holding old: the bytes the file
\* still has are stored, the rest of var is untouched; a read after the end of
\* the file was met stores nothing.
ReadField(old, file, pos) ==
    LET left  == IF Len(file) > pos THEN Len(file) - pos ELSE 0
        avail == IF left >= WORD THEN WORD ELSE left
    IN  [i \in 1..WORD |-> IF i <= avail THEN file[pos + i] ELSE old[i]]

\* The OP_INSERT branch of the replay loop.
replay_insert(m, uid, aid, row) ==
    LET grown == IF aid >= Len(m.auto_row)
                 THEN m.auto_row \o [i \in 1..(aid + 1 - Len(m.auto_row)) |-> MinusOne]
                 ELSE m.auto_row
    IN  [user_auto |-> MapPut(m.user_auto, uid, aid),
         auto_row  |-> [grown EXCEPT ![aid + 1] = row],
         auto_id   |-> IF aid >= m.auto_id THEN aid + 1 ELSE m.auto_id]

\* Mutant of replay_delete: the user id is erased, its row is not tombstoned.
replay_delete_keeps_row(m, uid, aid) ==
    [m EXCEPT !.user_auto = MapErase(m.user_auto, uid)]

\* Mutant of replay_delete: the deleted entry is taken out of the array, the
\* entries after it moving down.
replay_delete_compacts(m, uid, aid) ==
    [m EXCEPT !.user_auto = MapErase(m.user_auto, uid),
              !.auto_row  = IF aid < Len(m.auto_row)
                            THEN SubSeq(m.auto_row, 1, aid)
                                 \o SubSeq(m.auto_row, aid + 2, Len(m.auto_row))
                            ELSE m.auto_row]

\* The OP_DELETE branch of the replay loop.
replay_delete(m, uid, aid) ==
    [m EXCEPT !.user_auto = MapErase(m.user_auto, uid),
              !.auto_row  = IF aid < Len(m.auto_row)
                            THEN [m.auto_row EXCEPT ![aid + 1] = MinusOne]
                            ELSE m.auto_row]

\* The while loop: loc holds the locals user_id, read_aid, row_index as the
\* previous iteration left them.
RECURSIVE replay_loop(_, _, _, _)
replay_loop(m, file, pos, loc) ==
    IF pos >= Len(file) THEN m
    ELSE LET op        == file[pos + 1]
             user_id   == ReadField(loc.user_id, file, pos + 1)
             read_aid  == ReadField(loc.read_aid, file, pos + 1 + WORD)
             row_index == ReadField(loc.row_index, file, pos + 1 + 2 * WORD)
             m2 == IF op = OP_INSERT
                   THEN replay_insert(m, ToU64(user_id), ToU64(read_aid), row_index)
                   ELSE IF op = OP_DELETE
                   THEN replay_delete(m, ToU64(user_id), ToU64(read_aid))
                   ELSE m
         IN  replay_loop(m2, file, pos + RECORD_SIZE,
                         [user_id |-> user_id, read_aid |-> read_aid,
                          row_index |-> row_index])

\* The adjustment after the loop.
replay_finish(m) ==
    [m EXCEPT !.auto_id = IF Len(m.auto_row) > m.auto_id
                          THEN Len(m.auto_row) ELSE m.auto_id]

\* Mutant of replay_log: the next auto id is taken from the number of live
\* user ids.
replay_log_counts_live(file, g) ==
    LET m == replay_loop(Fresh, file, 0, g)
    IN  [m EXCEPT !.auto_id = Cardinality(DOMAIN m.user_auto)]

\* replay_log on a new object; g is what the uninitialized locals hold.
replay_log(file, g) == replay_finish(replay_loop(Fresh, file, 0, g))

\* Values the uninitialized locals of replay_log may hold.
Garbage == {[user_id |-> U64(0), read_aid |-> U64(0), row_index |-> I64(0)],
            [user_id |-> U64(MaxUser), read_aid |-> U64(1), row_index |-> MinusOne]}

----------------------------------------------------------------------------
\* Lookups.

get_row(a) == IF a >= Len(auto_row) THEN MinusOne ELSE auto_row[a + 1]

get_row_from_user(uid) ==
    IF uid \notin DOMAIN user_auto THEN MinusOne ELSE get_row(user_auto[uid])

----------------------------------------------------------------------------
\* An IdSlab constructed on a path with no log file.
IdSlab_new ==
    /\ user_auto = EmptyMap
    /\ auto_row = <<>>
    /\ auto_id = 0
    /\ log = <<>>
    /\ call = [op |-> "open", uid |-> 0, row |-> MinusOne, ret |-> <<>>]
    /\ h_issued = <<>>
    /\ h_ins_row = <<>>
    /\ h_last_row = EmptyMap
    /\ h_removed = {}
    /\ h_nmut = 0

Init ==
    /\ IdSlab_new
    /\ MatrixAbsent
    /\ GpuAbsent

\* Mutant of insert_duplicate: no early return, the live user id is given a
\* new auto id.
insert_duplicate_overwrites(u, r) ==
    /\ UNCHANGED <<m_vars, g_vars>>
    /\ u \in DOMAIN user_auto
    /\ Len(log) + RECORD_SIZE <= MaxRecords * RECORD_SIZE
    /\ auto_id' = auto_id + 1
    /\ user_auto' = MapPut(user_auto, u, auto_id)
    /\ auto_row' = Append(auto_row, I64(r))
    /\ log' = write_log_entry(log, OP_INSERT, u, auto_id, I64(r))
    /\ call' = [op |-> "insert", uid |-> u, row |-> I64(r), ret |-> <<auto_id>>]
    /\ UNCHANGED hist

\* The effect of insert(user_id, row_index) on the IdSlab when user_id is
\* live: std::nullopt is <<>>.
do_insert_duplicate(u, r) ==
    /\ u \in DOMAIN user_auto
    /\ call' = [op |-> "insert", uid |-> u, row |-> I64(r), ret |-> <<>>]
    /\ UNCHANGED <<mem, log, hist>>

\* insert(user_id, row_index), the other components untouched.
insert_duplicate(u, r) ==
    /\ UNCHANGED <<m_vars, g_vars>>
    /\ do_insert_duplicate(u, r)

\* Mutant of insert_new: the counter is read and not advanced.
insert_new_no_increment(u, r) ==
    /\ UNCHANGED <<m_vars, g_vars>>
    /\ u \notin DOMAIN user_auto
    /\ Len(log) + RECORD_SIZE <= MaxRecords * RECORD_SIZE
    /\ LET id == auto_id IN
        /\ auto_id' = auto_id
        /\ user_auto' = MapPut(user_auto, u, id)
        /\ auto_row' = Append(auto_row, I64(r))
        /\ log' = write_log_entry(log, OP_INSERT, u, id, I64(r))
        /\ call' = [op |-> "insert", uid |-> u, row |-> I64(r), ret |-> <<id>>]
        /\ h_issued' = Append(h_issued, id)
        /\ h_ins_row' = Append(h_ins_row, I64(r))
        /\ h_last_row' = MapPut(h_last_row, u, I64(r))
        /\ h_nmut' = h_nmut + 1
        /\ UNCHANGED h_removed

\* The effect of insert(user_id, row_index) on the IdSlab otherwise.
do_insert_new(u, r) ==
    /\ u \notin DOMAIN user_auto
    /\ Len(log) + RECORD_SIZE <= MaxRecords * RECORD_SIZE
    /\ LET id == auto_id IN
        /\ auto_id' = auto_id + 1
        /\ user_auto' = MapPut(user_auto, u, id)
        /\ auto_row' = Append(auto_row, I64(r))
        /\ log' = write_log_entry(log, OP_INSERT, u, id, I64(r))
        /\ call' = [op |-> "insert", uid |-> u, row |-> I64(r), ret |-> <<id>>]
        /\ h_issued' = Append(h_issued, id)
        /\ h_ins_row' = Append(h_ins_row, I64(r))
        /\ h_last_row' = MapPut(h_last_row, u, I64(r))
        /\ h_nmut' = h_nmut + 1
        /\ UNCHANGED h_removed

\* insert(user_id, row_index), the other components untouched.
insert_new(u, r) ==
    /\ UNCHANGED <<m_vars, g_vars>>
    /\ do_insert_new(u, r)

insert(u, r) == insert_duplicate(u, r) \/ insert_new(u, r)

\* Mutant of remove_absent: no early return; user_auto[user_id] creates the
\* entry with auto id 0, which is then erased, tombstoned and logged.
remove_absent_unchecked(u) ==
    /\ UNCHANGED <<m_vars, g_vars>>
    /\ u \notin DOMAIN user_auto
    /\ Len(log) + RECORD_SIZE <= MaxRecords * RECORD_SIZE
    /\ auto_row' = IF 0 < Len(auto_row)
                   THEN [auto_row EXCEPT ![1] = MinusOne]
                   ELSE auto_row
    /\ log' = write_log_entry(log, OP_DELETE, u, 0, MinusOne)
    /\ call' = [op |-> "remove", uid |-> u, row |-> MinusOne, ret |-> <<>>]
    /\ UNCHANGED <<user_auto, auto_id, hist>>

\* remove(user_id) when user_id is not present.
remove_absent(u) ==
    /\ UNCHANGED <<m_vars, g_vars>>
    /\ u \notin DOMAIN user_auto
    /\ call' = [op |-> "remove", uid |-> u, row |-> MinusOne, ret |-> <<>>]
    /\ UNCHANGED <<mem, log, hist>>

\* Mutant of remove_live: the row of the removed auto id is left in place.
remove_live_no_tombstone(u) ==
    /\ UNCHANGED <<m_vars, g_vars>>
    /\ u \in DOMAIN user_auto
    /\ Len(log) + RECORD_SIZE <= MaxRecords * RECORD_SIZE
    /\ LET aid == user_auto[u] IN
        /\ user_auto' = MapErase(user_auto, u)
        /\ log' = write_log_entry(log, OP_DELETE, u, aid, MinusOne)
        /\ call' = [op |-> "remove", uid |-> u, row |-> MinusOne, ret |-> <<aid>>]
        /\ h_removed' = h_removed \cup {aid}
        /\ h_nmut' = h_nmut + 1
        /\ UNCHANGED <<auto_row, auto_id, h_issued, h_ins_row, h_last_row>>

\* Mutant of remove_live: the DELETE record carries the member auto_id (the
\* counter) in place of the local aid.
remove_live_logs_counter(u) ==
    /\ UNCHANGED <<m_vars, g_vars>>
    /\ u \in DOMAIN user_auto
    /\ Len(log) + RECORD_SIZE <= MaxRecords * RECORD_SIZE
    /\ LET aid == user_auto[u] IN
        /\ user_auto' = MapErase(user_auto, u)
        /\ auto_row' = IF aid < Len(auto_row)
                       THEN [auto_row EXCEPT ![aid + 1] = MinusOne]
                       ELSE auto_row
        /\ log' = write_log_entry(log, OP_DELETE, u, auto_id, MinusOne)
        /\ call' = [op |-> "remove", uid |-> u, row |-> MinusOne, ret |-> <<aid>>]
        /\ h_removed' = h_removed \cup {aid}
        /\ h_nmut' = h_nmut + 1
        /\ UNCHANGED <<auto_id, h_issued, h_ins_row, h_last_row>>

\* remove(user_id) otherwise.
remove_live(u) ==
    /\ UNCHANGED <<m_vars, g_vars>>
    /\ u \in DOMAIN user_auto
    /\ Len(log) + RECORD_SIZE <= MaxRecords * RECORD_SIZE
    /\ LET aid == user_auto[u] IN
        /\ user_auto' = MapErase(user_auto, u)
        /\ auto_row' = IF aid < Len(auto_row)
                       THEN [auto_row EXCEPT ![aid + 1] = MinusOne]
                       ELSE auto_row
        /\ log' = write_log_entry(log, OP_DELETE, u, aid, MinusOne)
        /\ call' = [op |-> "remove", uid |-> u, row |-> MinusOne, ret |-> <<aid>>]
        /\ h_removed' = h_removed \cup {aid}
        /\ h_nmut' = h_nmut + 1
        /\ UNCHANGED <<auto_id, h_issued, h_ins_row, h_last_row>>

remove(u) == remove_absent(u) \/ remove_live(u)

\* get_row(auto_id) called from outside.
GetRowByAuto(a) ==
    /\ UNCHANGED <<m_vars, g_vars>>
    /\ call' = [op |-> "get_row", uid |-> a, row |-> MinusOne, ret |-> get_row(a)]
    /\ UNCHANGED <<mem, log, hist>>

\* get_row_from_user(uid) called from outside.
GetRowByUser(u) ==
    /\ UNCHANGED <<m_vars, g_vars>>
    /\ call' = [op |-> "get_row_from_user", uid |-> u, row |-> MinusOne,
                ret |-> get_row_from_user(u)]
    /\ UNCHANGED <<mem, log, hist>>

\* IdSlab(path) on a file that exists: the constructor opens it as it is and
\* replays it into a new object.
open_log(file) ==
    /\ \E g \in Garbage :
         LET m == replay_log(file, g) IN
           /\ user_auto' = m.user_auto
           /\ auto_row' = m.auto_row
           /\ auto_id' = m.auto_id
    /\ call' = [op |-> "open", uid |-> 0, row |-> MinusOne, ret |-> <<>>]

\* Mutant of Reopen: the constructor takes its creating branch on a file that
\* exists, and std::ios::out alone truncates it.
Reopen_truncates ==
    /\ UNCHANGED <<m_vars, g_vars>>
    /\ log' = <<>>
    /\ open_log(log')
    /\ UNCHANGED hist

\* ~IdSlab then IdSlab(path) on the same file.
Reopen ==
    /\ UNCHANGED <<m_vars, g_vars>>
    /\ open_log(log)
    /\ UNCHANGED <<log, hist>>

Mutate ==
    \/ \E u \in Users, r \in RowVals : insert(u, r)
    \/ \E u \in Users : remove(u)

Lookup ==
    \/ \E a \in AutoIds : GetRowByAuto(a)
    \/ \E u \in Users : GetRowByUser(u)

Next == Mutate \/ Lookup \/ Reopen

Spec == Init /\ [][Next]_all_vars

----------------------------------------------------------------------------
\* A write cut short.  The process dies when only the first k bytes of the
\* record write_log_entry was appending have reached the file, and the next
\* process opens the file.  The exploration follows one torn tail: while the
\* file ends in a fragment, it is only reopened and looked up.

Aligned == Len(log) % RECORD_SIZE = 0

FragmentLens == 1..(RECORD_SIZE - 1)

torn_write(rec, k) ==
    /\ UNCHANGED <<m_vars, g_vars>>
    /\ Aligned
    /\ Len(log) + RECORD_SIZE <= MaxRecords * RECORD_SIZE
    /\ log' = log \o SubSeq(rec, 1, k)
    /\ open_log(log')
    /\ UNCHANGED hist

\* insert(user_id, row_index) of an absent user id, cut short.
torn_insert(u, r, k) ==
    /\ u \notin DOMAIN user_auto
    /\ torn_write(Record(OP_INSERT, u, auto_id, I64(r)), k)

\* remove(user_id) of a live user id, cut short.
torn_remove(u, k) ==
    /\ u \in DOMAIN user_auto
    /\ torn_write(Record(OP_DELETE, u, user_auto[u], MinusOne), k)

NextTorn ==
    \/ Aligned /\ (Mutate \/ Reopen)
    \/ \E u \in Users, r \in RowVals, k \in FragmentLens : torn_insert(u, r, k)
    \/ \E u \in Users, k \in FragmentLens : torn_remove(u, k)
    \/ ~Aligned /\ (Reopen \/ Lookup)

SpecTorn == Init /\ [][NextTorn]_all_vars

----------------------------------------------------------------------------
\* Vocabulary of the properties.

\* The in-memory state as one record.
Mem == [user_auto |-> user_auto, auto_row |-> auto_row, auto_id |-> auto_id]

IsPrefix(s, t) == Len(s) <= Len(t) /\ SubSeq(t, 1, Len(s)) = s

\* The complete records of the file, and the fields of the i-th.
NumRecords == Len(log) \div RECORD_SIZE
CompleteRecords == SubSeq(log, 1, NumRecords * RECORD_SIZE)
RecOp(i)  == log[(i - 1) * RECORD_SIZE + 1]
RecUid(i) == ToU64(SubSeq(log, (i - 1) * RECORD_SIZE + 2, (i - 1) * RECORD_SIZE + 1 + WORD))

InsertSucceeded == call.op = "insert" /\ call.ret # <<>>
RemoveSucceeded == call.op = "remove" /\ call.ret # <<>>

----------------------------------------------------------------------------
\* C1: opening a log that ends in a fragment of 1 to 24 bytes gives the user->auto
\* map, the auto->row array and next_auto_id that replaying only the complete
\* records gives, whatever the fragment holds and whatever the last complete
\* record was.
C1_TornTailIgnored ==
    (call.op = "open" /\ ~Aligned) =>
        \A g \in Garbage : Mem = replay_log(CompleteRecords, g)

\* C2: in every state reached by inserts, removes and reopens from an empty
\* log, replaying the whole log yields exactly the in-memory state, and a
\* reopen leaves the user->auto map, the auto->row array and next_auto_id as
\* they were (so a second reopen does too).
C2_ReopenReproducesState ==
    /\ [](\A g \in Garbage : replay_log(log, g) = Mem)
    /\ [][call'.op = "open" =>
            (user_auto' = user_auto /\ auto_row' = auto_row /\ auto_id' = auto_id)]_vars

C2_Witness ==
    /\ call.op = "open"
    /\ h_removed # {}
    /\ DOMAIN user_auto # {}
    /\ Len(auto_row) >= 2

\* C3: insert of a user id that is live returns the absent outcome and changes
\* nothing: the map, the array, next_auto_id and the log (its length too) are
\* as before.
C3_DuplicateInsertNoEffect ==
    [][(call'.op = "insert" /\ call'.uid \in DOMAIN user_auto) =>
          /\ call'.ret = <<>>
          /\ user_auto' = user_auto
          /\ auto_row' = auto_row
          /\ auto_id' = auto_id
          /\ log' = log]_vars

C3_Witness ==
    /\ call.op = "insert"
    /\ call.ret = <<>>
    /\ call.uid \in DOMAIN user_auto
    /\ call.row # get_row_from_user(call.uid)

\* C4: for every live user id, GetRowByUser returns a value >= 0 that equals
\* the row_index of that user's most recent successful insert, for every
\* row_index insert accepts.
C4_LiveRowNonNegative ==
    \A u \in DOMAIN user_auto :
        /\ ~IsNegative(get_row_from_user(u))
        /\ get_row_from_user(u) = h_last_row[u]

\* C5: the auto ids successful inserts return are strictly increasing over the
\* whole history, across removes and reopens, so none is handed out twice; and
\* a successful insert returns the value next_auto_id had just before it.
C5_AutoIdsIncrease ==
    /\ [](\A i, j \in 1..Len(h_issued) : i < j => h_issued[i] < h_issued[j])
    /\ [][(call'.op = "insert" /\ call'.ret # <<>>) => call'.ret = <<auto_id>>]_vars

\* u inserted, removed and inserted again, with a reopen on the way or not.
C5_Witness ==
    /\ InsertSucceeded
    /\ \E i, j, k \in 1..NumRecords :
         /\ i < j /\ j < k /\ k = NumRecords
         /\ RecOp(i) = OP_INSERT /\ RecOp(j) = OP_DELETE /\ RecOp(k) = OP_INSERT
         /\ RecUid(i) = call.uid /\ RecUid(j) = call.uid /\ RecUid(k) = call.uid
    /\ call.ret[1] > h_issued[1]

\* C6: the user->auto map is injective: no two distinct live user ids have the
\* same auto id.
C6_UserAutoInjective ==
    \A u, v \in DOMAIN user_auto : u # v => user_auto[u] # user_auto[v]

\* Two live user ids, the second just inserted.
C6_Witness ==
    /\ Cardinality(DOMAIN user_auto) >= 2
    /\ InsertSucceeded
    /\ auto_id >= 2

\* C7: for every auto id a < next_auto_id, auto->row[a] as GetRowByAuto returns
\* it is the row of the insert that got auto id a, or -1; an entry remove has
\* tombstoned is -1 in every later state; GetRowByAuto of an id >= next_auto_id
\* is -1.
C7_AutoRowEntries ==
    /\ \A a \in 0..(auto_id - 1) :
         /\ a < Len(h_ins_row)
         /\ a < Len(auto_row)
         /\ get_row(a) \in {h_ins_row[a + 1], MinusOne}
    /\ \A a \in h_removed : get_row(a) = MinusOne
    /\ \A a \in auto_id..(MaxRecords + 1) : get_row(a) = MinusOne

C7_Witness ==
    /\ \E a \in h_removed : h_ins_row[a + 1] # MinusOne
    /\ \E a \in 0..(auto_id - 1) : get_row(a) # MinusOne
    /\ call.op = "get_row"

\* C8: remove of a live user id erases it from the map, sets auto->row at its
\* auto id to -1 so that both lookups return -1, appends exactly one DELETE
\* record with that auto id and row -1, and leaves every other user's mapping
\* and row and next_auto_id as they were.
C8_RemoveLive ==
    [][\A u \in DOMAIN user_auto : \A aid \in {user_auto[u]} :
        (call'.op = "remove" /\ call'.uid = u) =>
              /\ call'.ret = <<aid>>
              /\ user_auto' = MapErase(user_auto, u)
              /\ get_row_from_user(u)' = MinusOne
              /\ get_row(aid)' = MinusOne
              /\ log' = log \o Record(OP_DELETE, u, aid, MinusOne)
              /\ Len(auto_row') = Len(auto_row)
              /\ \A a \in 0..(Len(auto_row) - 1) :
                     a # aid => auto_row'[a + 1] = auto_row[a + 1]
              /\ \A v \in DOMAIN user_auto :
                     v # u => get_row_from_user(v)' = get_row_from_user(v)
              /\ auto_id' = auto_id]_vars

C8_Witness ==
    /\ RemoveSucceeded
    /\ DOMAIN user_auto # {}
    /\ h_ins_row[call.ret[1] + 1] # MinusOne

\* C9: remove of a user id that is not present changes nothing: the map, the
\* array, next_auto_id and the log are as before.
C9_RemoveAbsentNoEffect ==
    [][(call'.op = "remove" /\ call'.uid \notin DOMAIN user_auto) =>
          /\ call'.ret = <<>>
          /\ user_auto' = user_auto
          /\ auto_row' = auto_row
          /\ auto_id' = auto_id
          /\ log' = log]_vars

\* Remove of a user id already removed, other users being live.
C9_Witness ==
    /\ call.op = "remove"
    /\ call.ret = <<>>
    /\ call.uid \in DOMAIN h_last_row
    /\ call.uid \notin DOMAIN user_auto
    /\ DOMAIN user_auto # {}

\* C10: the log is append-only: a successful insert and a remove of a live
\* user id append exactly one 25-byte record (op, user_id, auto_id, row_index),
\* every other operation leaves the file as it is, so the log before a step is
\* a prefix of the log after it and its length is 25 times the number of
\* successful mutations.
C10_LogAppendOnly ==
    /\ [](Len(log) = 25 * h_nmut)
    /\ [][/\ IsPrefix(log, log')
          /\ (call'.op = "insert" /\ call'.ret # <<>>) =>
                log' = log \o <<OP_INSERT>> \o U64(call'.uid) \o U64(call'.ret[1])
                           \o call'.row
          /\ (call'.op = "remove" /\ call'.ret # <<>>) =>
                log' = log \o <<OP_DELETE>> \o U64(call'.uid) \o U64(call'.ret[1])
                           \o MinusOne
          /\ (call'.ret = <<>> \/ call'.op \notin {"insert", "remove"}) =>
                log' = log]_vars

C10_Witness ==
    /\ call.op = "open"
    /\ h_nmut = 3
    /\ h_removed # {}

----------------------------------------------------------------------------
\* MatrixSlab.  The mapping is MAP_SHARED, so the header and the data region
\* live in the file; the object holds only the length it mapped.  The data
\* region is kept as the floats up to the last one written; the rest of the
\* file's length is what ftruncate zero-filled.

\* Bounds of the exploration.
MaxAppends == 1002      \* rows a slab may hold

\* Program constants.
MAGIC            == 646391431      \* 0x26872687
INITIAL_CAPACITY == 1000
FLOAT_SIZE       == 4              \* sizeof(float)
HEADER_SIZE      == 4 + 4 + 8 + 8 + 8 + 96     \* sizeof(SlabHeader): 128

\* The float values of the vectors, the dimensions a slab is created with.
Coords == {0, 1}
Dims   == {1, 2}
Vectors(d) == [1..d -> Coords]
OneHot(i, d) == [j \in 1..d |-> IF j = (i % d) + 1 THEN 1 ELSE 0]

\* The vectors appended at count n: any vector in the two rows either side of
\* the first growth, one fixed vector elsewhere.
AppendInputs(n, d) ==
    IF n \in {INITIAL_CAPACITY - 1, INITIAL_CAPACITY}
    THEN Vectors(d) ELSE {OneHot(n, d)}

\* The float at index i of the data region, and row n of it.
DataAt(f, i) == IF i <= Len(f.data) THEN f.data[i] ELSE 0
RowOf(f, n)  == [j \in 1..f.dim |-> DataAt(f, n * f.dim + j)]

\* std::memcpy(&data_region[offset], v, dim * sizeof(float)).
MemcpyAt(data, offset, v) ==
    LET n == IF Len(data) > offset + Len(v) THEN Len(data) ELSE offset + Len(v)
    IN  [i \in 1..n |-> IF i > offset /\ i <= offset + Len(v) THEN v[i - offset]
                        ELSE IF i <= Len(data) THEN data[i] ELSE 0]

\* map_file(size): the object remembers the length it mapped.
map_file(size) == [open |-> TRUE, file_size |-> size]

\* Mutant of grow_file: the file is grown by one row.
grow_file_by_one(f, new_capacity) ==
    [f EXCEPT !.size = HEADER_SIZE + (f.capacity + 1) * FLOAT_SIZE * f.dim,
              !.capacity = f.capacity + 1]

\* grow_file(new_capacity): ftruncate to the new length keeps the bytes the
\* file has, then header->capacity is set.
grow_file(f, new_capacity) ==
    [f EXCEPT !.size = HEADER_SIZE + new_capacity * FLOAT_SIZE * f.dim,
              !.capacity = new_capacity]

\* Mutant of NewHeader: the capacity written is that of an empty header.
NewHeader_zero_capacity(dimension) ==
    [exists |-> TRUE, magic |-> MAGIC, version |-> 0, count |-> 0,
     dim |-> dimension, capacity |-> 0, data |-> <<>>,
     size |-> HEADER_SIZE + dimension * FLOAT_SIZE * INITIAL_CAPACITY]

\* The file the constructor makes when the path does not exist: ftruncate
\* zero-fills it, then magic, count, dim and capacity are assigned.  version
\* is not assigned: the member initializers of SlabHeader do not run on a
\* pointer cast onto the mapping.
NewHeader(dimension) ==
    [exists |-> TRUE, magic |-> MAGIC, version |-> 0, count |-> 0,
     dim |-> dimension, capacity |-> INITIAL_CAPACITY, data |-> <<>>,
     size |-> HEADER_SIZE + dimension * FLOAT_SIZE * INITIAL_CAPACITY]

\* MatrixSlab(path, dimension) when the path does not exist.
MatrixSlab_new(dimension) ==
    /\ ~m_obj.open
    /\ ~m_file.exists
    /\ m_file' = NewHeader(dimension)
    /\ m_obj' = map_file(m_file'.size)
    /\ m_call' = [op |-> "create", arg |-> dimension]
    /\ UNCHANGED <<vars, g_vars>>

\* MatrixSlab(path, dimension) when the path exists: the file is mapped as it
\* is, whatever its header holds; dimension is not used.
MatrixSlab_existing(dimension) ==
    /\ ~m_obj.open
    /\ m_file.exists
    /\ m_obj' = map_file(m_file.size)
    /\ m_call' = [op |-> "open", arg |-> 0]
    /\ UNCHANGED <<m_file, vars, g_vars>>

\* ~MatrixSlab.
MatrixSlab_close ==
    /\ m_obj.open
    /\ m_obj' = NoObject
    /\ m_call' = [op |-> "close", arg |-> 0]
    /\ UNCHANGED <<m_file, vars, g_vars>>

\* Mutant of AddVector: the file is never grown.
AddVector_never_grows(f, v) ==
    [f EXCEPT !.data = MemcpyAt(f.data, f.count * f.dim, v),
              !.count = f.count + 1]

\* The file after add_vector(v).
AddVector(f, v) ==
    LET g == IF f.count >= f.capacity THEN grow_file(f, f.capacity * 2) ELSE f
    IN  [g EXCEPT !.data = MemcpyAt(g.data, g.count * g.dim, v),
                  !.count = g.count + 1]

\* Mutant of add_vector: the row is copied to offset count, not count * dim.
add_vector_offset_in_rows(v) ==
    /\ m_obj.open
    /\ m_file.count < MaxAppends
    /\ m_file' = [m_file EXCEPT !.data = MemcpyAt(m_file.data, m_file.count, v),
                                !.count = m_file.count + 1]
    /\ m_obj' = m_obj
    /\ m_call' = [op |-> "add_vector", arg |-> v]
    /\ UNCHANGED <<vars, g_vars>>

\* add_vector(vector_Data), the caller passing dim floats.
do_add_vector(v) ==
    /\ m_obj.open
    /\ m_file.count < MaxAppends
    /\ m_file' = AddVector(m_file, v)
    /\ m_obj' = map_file(m_file'.size)
    /\ m_call' = [op |-> "add_vector", arg |-> v]

\* add_vector(vector_Data), the other components untouched.
add_vector(v) ==
    /\ UNCHANGED <<vars, g_vars>>
    /\ do_add_vector(v)

MatrixInit ==
    /\ MatrixAbsent
    /\ IdSlabAbsent
    /\ GpuAbsent

MatrixNext ==
    \/ \E d \in Dims : MatrixSlab_new(d)
    \/ \E d \in {0, m_file.dim} : MatrixSlab_existing(d)
    \/ MatrixSlab_close
    \/ \E v \in AppendInputs(m_file.count, m_file.dim) : add_vector(v)

SpecMatrix == MatrixInit /\ [][MatrixNext]_all_vars

\* A slab file this program did not write: a well-formed empty slab whose
\* first four bytes may be anything.
ForeignFiles ==
    {[NewHeader(d) EXCEPT !.magic = m, !.version = 1] : d \in Dims, m \in {MAGIC, 0}}

ForeignInit ==
    /\ m_file \in ForeignFiles
    /\ m_obj = NoObject
    /\ m_call = NoCall
    /\ IdSlabAbsent
    /\ GpuAbsent

ForeignNext ==
    \/ \E d \in {0, m_file.dim} : MatrixSlab_existing(d)
    \/ MatrixSlab_close
    \/ \E v \in AppendInputs(m_file.count, m_file.dim) : add_vector(v)

SpecForeign == ForeignInit /\ [][ForeignNext]_all_vars


----------------------------------------------------------------------------
\* GpuIndex (gpu.h).  The device buffers are kept as the floats written to
\* them so far: cudaMalloc leaves them uninitialized, and within the allocated
\* sizes the code reads only what it has written.  Vectors are integer-valued,
\* so every float operation below is exact.

\* Bounds of the exploration.
MaxVectors == 2         \* largest capacity an index is constructed with

\* Program constants.
max_batch_size == 100

\* Sum of the entries lo..hi of a sequence of numbers, taken by halves: the
\* numbers are integers, so the order of the additions does not change the sum.
RECURSIVE SumRange(_, _, _)
SumRange(f, lo, hi) ==
    IF lo > hi THEN 0
    ELSE IF lo = hi THEN f[lo]
    ELSE LET mid == (lo + hi) \div 2
         IN  SumRange(f, lo, mid) + SumRange(f, mid + 1, hi)

\* Sum of the first n entries of a sequence of numbers.
SumTo(f, n) == SumRange(f, 1, n)

\* sum_sq of add_single_vector and search; the loop of compute_norms_kernel.
SumSq(v) == SumTo([i \in 1..Len(v) |-> v[i] * v[i]], Len(v))

\* Row i (from 0) of a flat buffer of rows of d floats.
BufRow(buf, i, d) == [j \in 1..d |-> buf[i * d + j]]

\* flat_queries and host_q_norms as the first loop of search builds them.
RECURSIVE Flatten(_)
Flatten(queries) ==
    IF queries = <<>> THEN <<>> ELSE Head(queries) \o Flatten(Tail(queries))

HostNorms(queries) == [q \in 1..Len(queries) |-> SumSq(queries[q])]

\* Mutant of cublasSgemm: alpha is -1.
cublasSgemm_alpha_minus_one(db, queries, count, num_queries, d) ==
    [idx \in 1..(count * num_queries) |->
        LET i == (idx - 1) % count
            q == (idx - 1) \div count
        IN  (-1) * SumTo([j \in 1..d |-> db[i * d + j] * queries[q * d + j]], d)]

\* cublasSgemm(OP_T, OP_N, count, num_queries, dim, alpha = -2, d_db, dim,
\* d_queries, dim, beta = 0, d_results, count): column-major C with leading
\* dimension count, C[i + q * count] = -2 * (row i of d_db . query q).
cublasSgemm(db, queries, count, num_queries, d) ==
    [idx \in 1..(count * num_queries) |->
        LET i == (idx - 1) % count
            q == (idx - 1) \div count
        IN  (-2) * SumTo([j \in 1..d |-> db[i * d + j] * queries[q * d + j]], d)]

\* compute_l2_dist_kernel over all idx < num_db * num_queries.
compute_l2_dist_kernel(db_norms, query_norms, dots, num_db, num_queries) ==
    [idx \in 1..(num_db * num_queries) |->
        LET row == (idx - 1) % num_db
            col == (idx - 1) \div num_db
        IN  dots[idx] + db_norms[row + 1] + query_norms[col + 1]]

\* operator< of std::pair<float, int>.
PairLess(a, b) == a[1] < b[1] \/ (a[1] = b[1] /\ a[2] < b[2])

\* The k smallest of a set of pairs, in ascending order.
RECURSIVE SmallestFirst(_, _)
SmallestFirst(S, k) ==
    IF k = 0 \/ S = {} THEN <<>>
    ELSE LET m == CHOOSE a \in S : \A b \in S : a = b \/ PairLess(a, b)
         IN  <<m>> \o SmallestFirst(S \ {m}, k - 1)

\* Mutant of partial_sort: the candidates are left in index order.
partial_sort_unsorted(candidates, safe_k) ==
    SubSeq(candidates, 1, safe_k)

\* std::partial_sort(begin, begin + safe_k, end) followed by reading the first
\* safe_k candidates.
partial_sort(candidates, safe_k) ==
    SmallestFirst({candidates[i] : i \in 1..Len(candidates)}, safe_k)

\* The result list of query q (from 0) out of all_scores.
ResultsOf(all_scores, q, count, k) ==
    LET candidates == [i \in 1..count |-> <<all_scores[q * count + i], i - 1>>]
        safe_k     == IF k < count THEN k ELSE count
        sorted     == partial_sort(candidates, safe_k)
    IN  [i \in 1..safe_k |-> [id |-> sorted[i][2], score |-> sorted[i][1]]]

\* A buffer read over n floats when only Len(buf) were written: the rest is
\* whatever the memory holds, g.
ReadBuf(buf, n, g) == [i \in 1..n |-> IF i <= Len(buf) THEN buf[i] ELSE g]

\* What the device holds after the two cudaMemcpy calls of search.  Within
\* max_batch_size they fill the buffers.  Beyond it they run past the
\* allocations: the runtime either performs them or rejects them, and then
\* the kernels read the old buffers and the memory after them.
QueryBuffers(queries) ==
    LET flat  == Flatten(queries)
        norms == HostNorms(queries)
    IN  IF Len(queries) <= max_batch_size
        THEN {[queries |-> flat, norms |-> norms, copied |-> TRUE]}
        ELSE {[queries |-> flat, norms |-> norms, copied |-> TRUE]}
             \cup {[queries |-> ReadBuf(d_queries, Len(flat), g),
                    norms   |-> ReadBuf(d_q_norms, Len(norms), g),
                    copied  |-> FALSE] : g \in Coords}

\* The scores search copies back for the device state b.
Scores(b, num_queries) ==
    compute_l2_dist_kernel(d_db_norms, b.norms,
        cublasSgemm(d_db, b.queries, current_count, num_queries, dim),
        current_count, num_queries)

\* Construction: GpuIndex(dimension, capacity).
GpuIndex(dimension, capacity) ==
    /\ dim = dimension
    /\ max_vectors = capacity
    /\ current_count = 0
    /\ d_db = <<>> /\ d_db_norms = <<>>
    /\ d_queries = <<>> /\ d_q_norms = <<>> /\ d_results = <<>>
    /\ g_call = [op |-> "GpuIndex"]

\* Mutant of add_single_vector_full: the test is current_count > max_vectors.
add_single_vector_full_off_by_one(host_vec) ==
    /\ current_count >= max_vectors
    /\ IF current_count > max_vectors
       THEN /\ g_call' = [op |-> "add_single_vector", arg |-> host_vec, ret |-> FALSE]
            /\ UNCHANGED <<current_count, d_db, d_db_norms>>
       ELSE /\ d_db' = d_db \o host_vec
            /\ d_db_norms' = Append(d_db_norms, SumSq(host_vec))
            /\ current_count' = current_count + 1
            /\ g_call' = [op |-> "add_single_vector", arg |-> host_vec, ret |-> TRUE]
    /\ UNCHANGED <<max_vectors, dim, d_queries, d_q_norms, d_results, vars, m_vars>>

\* The effect of add_single_vector(host_vec) on a full index.
do_add_single_vector_full(host_vec) ==
    /\ current_count >= max_vectors
    /\ g_call' = [op |-> "add_single_vector", arg |-> host_vec, ret |-> FALSE]
    /\ UNCHANGED <<max_vectors, dim, current_count, d_db, d_db_norms,
                   d_queries, d_q_norms, d_results>>

\* add_single_vector(host_vec), the other components untouched.
add_single_vector_full(host_vec) ==
    /\ UNCHANGED <<vars, m_vars>>
    /\ do_add_single_vector_full(host_vec)

\* The effect of add_single_vector(host_vec) otherwise.
do_add_single_vector_stores(host_vec) ==
    /\ current_count < max_vectors
    /\ d_db' = d_db \o host_vec
    /\ d_db_norms' = Append(d_db_norms, SumSq(host_vec))
    /\ current_count' = current_count + 1
    /\ g_call' = [op |-> "add_single_vector", arg |-> host_vec, ret |-> TRUE]
    /\ UNCHANGED <<max_vectors, dim, d_queries, d_q_norms, d_results>>

\* add_single_vector(host_vec), the other components untouched.
add_single_vector_stores(host_vec) ==
    /\ UNCHANGED <<vars, m_vars>>
    /\ do_add_single_vector_stores(host_vec)

add_single_vector(host_vec) ==
    add_single_vector_full(host_vec) \/ add_single_vector_stores(host_vec)

\* search(queries, k) with a non-empty batch.
search(queries, k) ==
    /\ Len(queries) > 0
    /\ \E b \in QueryBuffers(queries) :
        LET num_queries == Len(queries)
            all_scores  == Scores(b, num_queries)
        IN  /\ d_queries' = IF b.copied THEN b.queries ELSE d_queries
            /\ d_q_norms' = IF b.copied THEN b.norms ELSE d_q_norms
            /\ d_results' = IF current_count = 0 THEN d_results ELSE all_scores
            /\ g_call' = [op |-> "search", queries |-> queries, k |-> k,
                          all_scores |-> all_scores,
                          ret |-> [q \in 1..num_queries |->
                                     ResultsOf(all_scores, q - 1, current_count, k)]]
    /\ UNCHANGED <<max_vectors, dim, current_count, d_db, d_db_norms, vars, m_vars>>

\* search(queries, k) with an empty batch: the early return.
search_empty(k) ==
    /\ g_call' = [op |-> "search", queries |-> <<>>, k |-> k,
                  all_scores |-> <<>>, ret |-> <<>>]
    /\ UNCHANGED <<max_vectors, dim, current_count, d_db, d_db_norms,
                   d_queries, d_q_norms, d_results, vars, m_vars>>

\* search_one(query, k): search({query}, k)[0].
search_one(query, k) ==
    /\ \E b \in QueryBuffers(<<query>>) :
        LET all_scores == Scores(b, 1)
        IN  /\ d_queries' = b.queries
            /\ d_q_norms' = b.norms
            /\ d_results' = IF current_count = 0 THEN d_results ELSE all_scores
            /\ g_call' = [op |-> "search_one", queries |-> <<query>>, k |-> k,
                          all_scores |-> all_scores,
                          ret |-> <<ResultsOf(all_scores, 0, current_count, k)>>]
    /\ UNCHANGED <<max_vectors, dim, current_count, d_db, d_db_norms, vars, m_vars>>

\* The vectors added at row n: any vector in the rows of FreeRows, one fixed
\* vector in later rows.
FreeRows == {0, 1}
AddInputs(n, d) == IF n \in FreeRows THEN Vectors(d) ELSE {OneHot(n, d)}

\* The batches searched: two pairs of different vectors, and, on an index of
\* at most one row, one batch of max_batch_size and one of max_batch_size + 1
\* copies of one vector.
Uniform(n, v) == [i \in 1..n |-> v]
Pairs(d) == {<<Uniform(d, 0), Uniform(d, 1)>>, <<Uniform(d, 1), Uniform(d, 0)>>}
LargeBatches(n, d) ==
    IF n \in {0, 1}
    THEN {Uniform(max_batch_size, OneHot(0, d)),
          Uniform(max_batch_size + 1, OneHot(0, d))}
    ELSE {}
Ks == 0..(current_count + 1)

GpuInit ==
    /\ \E d \in Dims, c \in 0..MaxVectors : GpuIndex(d, c)
    /\ IdSlabAbsent
    /\ MatrixAbsent

GpuNext ==
    \/ \E v \in AddInputs(current_count, dim) : add_single_vector(v)
    \/ \E qs \in Pairs(dim), k \in {1, current_count + 1} : search(qs, k)
    \/ \E qs \in LargeBatches(current_count, dim) : search(qs, 1)
    \/ search_empty(1)
    \/ \E q \in Vectors(dim), k \in Ks : search_one(q, k)

SpecGpu == GpuInit /\ [][GpuNext]_all_vars

----------------------------------------------------------------------------
\* C11: opening an existing slab file verifies the header magic: with a stored
\* magic other than 0x26872687 the open fails, so whenever a MatrixSlab is
\* open the header magic is 0x26872687.
C11_OpenVerifiesMagic ==
    m_obj.open => m_file.magic = MAGIC

\* C12: in every state reached by creating a new slab and then appending,
\* closing and reopening, count <= capacity and capacity >= 1000.
C12_CountWithinCapacity ==
    m_file.exists =>
        /\ m_file.count <= m_file.capacity
        /\ m_file.capacity >= INITIAL_CAPACITY
        /\ m_file.capacity >= 1000

\* The slab is full, and reopened.
C12_Witness ==
    /\ m_obj.open
    /\ m_call.op = "open"
    /\ m_file.count = m_file.capacity

\* C13: an append of v at count n stores v in row n, makes count n + 1 and
\* leaves rows 0..n-1 and dim as they were, whether it grows the file or not;
\* and no step (append, close, reopen) changes a row already stored.
C13_AppendRoundTrip ==
    [][m_file.exists =>
        /\ \A i \in 0..(m_file.count - 1) : RowOf(m_file', i) = RowOf(m_file, i)
        /\ m_file'.dim = m_file.dim
        /\ m_call'.op = "add_vector" =>
             /\ RowOf(m_file', m_file.count) = m_call'.arg
             /\ m_file'.count = m_file.count + 1]_m_vars

\* The append that grew the file, in dimension 2.
C13_Witness ==
    /\ m_call.op = "add_vector"
    /\ m_file.dim = 2
    /\ m_file.count = INITIAL_CAPACITY + 1
    /\ m_file.size > HEADER_SIZE + INITIAL_CAPACITY * FLOAT_SIZE * m_file.dim
    /\ m_call.arg # OneHot(INITIAL_CAPACITY, 2)

\* C14: capacity changes only in an append executed when count = capacity,
\* which sets it to exactly twice the old capacity; every other append leaves
\* it unchanged and it never decreases; after 1001 appends to a new slab
\* capacity = 2000 and count = 1001.
C14_CapacityDoubles ==
    /\ [](m_file.count = 1001 => m_file.capacity = 2000)
    /\ [][m_file.exists =>
            /\ m_file'.capacity >= m_file.capacity
            /\ m_file'.capacity # m_file.capacity =>
                 /\ m_call'.op = "add_vector"
                 /\ m_file.count = m_file.capacity
                 /\ m_file'.capacity = 2 * m_file.capacity
            /\ (m_call'.op = "add_vector" /\ m_file.count = m_file.capacity) =>
                 m_file'.capacity = 2 * m_file.capacity
            /\ (m_call'.op = "add_vector" /\ m_file.count # m_file.capacity) =>
                 m_file'.capacity = m_file.capacity]_m_vars

\* An append after the growth.
C14_Witness ==
    /\ m_call.op = "add_vector"
    /\ m_file.count = 1002
    /\ m_file.capacity = 2000

\* C15: a slab created on a path that does not exist has magic 0x26872687,
\* version 1, count 0, the caller's dim and capacity 1000, and magic, version
\* and dim keep those values in every later state.
C15_NewHeaderFields ==
    /\ [](m_file.exists => (m_file.magic = MAGIC /\ m_file.version = 1))
    /\ [](m_call.op = "create" =>
            /\ m_file.count = 0
            /\ m_file.dim = m_call.arg
            /\ m_file.capacity = 1000)
    /\ [][m_file.exists =>
            /\ m_file'.magic = m_file.magic
            /\ m_file'.version = m_file.version
            /\ m_file'.dim = m_file.dim]_m_vars


----------------------------------------------------------------------------
\* Vocabulary of the GpuIndex properties.

Searched == g_call.op \in {"search", "search_one"} /\ g_call.queries # <<>>

\* Squared L2 distance of two vectors, computed coordinate by coordinate.
SqDist(x, q) == SumTo([j \in 1..Len(x) |-> (x[j] - q[j]) * (x[j] - q[j])], Len(x))

Min(a, b) == IF a < b THEN a ELSE b

\* C16: add_single_vector on an index with current_count = max_vectors returns
\* false and leaves current_count, the stored rows and the norms unchanged; with
\* current_count < max_vectors it returns true, stores the vector and its
\* squared norm at row current_count, increments current_count by one and
\* leaves the earlier rows and norms unchanged.
C16_AppendOne ==
    [][g_call'.op = "add_single_vector" =>
        /\ current_count = max_vectors =>
             /\ g_call'.ret = FALSE
             /\ UNCHANGED <<current_count, d_db, d_db_norms>>
        /\ current_count < max_vectors =>
             /\ g_call'.ret = TRUE
             /\ current_count' = current_count + 1
             /\ BufRow(d_db', current_count, dim) = g_call'.arg
             /\ d_db_norms'[current_count + 1] = SqDist(g_call'.arg, [j \in 1..dim |-> 0])
             /\ Len(d_db') = current_count' * dim
             /\ Len(d_db_norms') = current_count'
             /\ \A i \in 0..(current_count - 1) :
                  /\ BufRow(d_db', i, dim) = BufRow(d_db, i, dim)
                  /\ d_db_norms'[i + 1] = d_db_norms[i + 1]]_g_vars

\* A full index of at least one row has refused a vector.
C16_Witness ==
    /\ g_call.op = "add_single_vector"
    /\ g_call.ret = FALSE
    /\ max_vectors >= 1
    /\ current_count = max_vectors
    /\ Len(d_db) = max_vectors * dim

\* C17: a search with more than max_batch_size queries is rejected: it returns
\* no result lists and leaves the query, query-norm and score buffers as they
\* were, so the scores of a search never cover more than max_batch_size queries.
C17_OversizeBatchRejected ==
    /\ []((g_call.op = "search" /\ Len(g_call.queries) > max_batch_size) =>
            (g_call.ret = <<>> /\ g_call.all_scores = <<>>))
    /\ [][(g_call'.op = "search" /\ Len(g_call'.queries) > max_batch_size) =>
            UNCHANGED <<d_queries, d_q_norms, d_results>>]_g_vars

\* C18: a search with a non-empty batch returns one list per query, in query
\* order; each list has min(k, current_count) entries, its rows are distinct
\* and below current_count, its entries ascend by score and, at equal scores,
\* by row, and no row left out scores less than a row in the list.
C18_SearchResultShape ==
    Searched =>
        /\ Len(g_call.ret) = Len(g_call.queries)
        /\ \A q \in 1..Len(g_call.queries) :
            LET L == g_call.ret[q]
                score(r) == g_call.all_scores[(q - 1) * current_count + r + 1]
                ids == {L[i].id : i \in 1..Len(L)}
            IN  /\ Len(L) = Min(g_call.k, current_count)
                /\ ids \subseteq 0..(current_count - 1)
                /\ Cardinality(ids) = Len(L)
                /\ \A i \in 1..Len(L) : L[i].score = score(L[i].id)
                /\ Len(g_call.queries) <= max_batch_size =>
                     \A i \in 1..Len(L) :
                        L[i].score = SqDist(BufRow(d_db, L[i].id, dim), g_call.queries[q])
                /\ \A i \in 1..Len(L), j \in 1..Len(L) :
                     i < j => \/ L[i].score < L[j].score
                              \/ (L[i].score = L[j].score /\ L[i].id < L[j].id)
                /\ \A r \in (0..(current_count - 1)) \ ids :
                     \A i \in 1..Len(L) : score(r) >= L[i].score

\* A batch of two queries on two rows with k above current_count: both lists
\* hold both rows, the first starting with row 1 and the second with row 0.
C18_Witness ==
    /\ g_call.op = "search"
    /\ Len(g_call.queries) = 2
    /\ current_count = 2
    /\ g_call.k = 3
    /\ Len(g_call.ret[1]) = 2
    /\ g_call.ret[1][1].id = 1
    /\ g_call.ret[2][1].id = 0

\* C19 as stated: a search_one with k >= 1 for the vector stored at row r
\* returns r first, with score ||x||^2 + ||q||^2 - 2 x.q = 0.
C19_SelfQueryTop1 ==
    (g_call.op = "search_one" /\ g_call.k >= 1) =>
        \A r \in 0..(current_count - 1) :
            BufRow(d_db, r, dim) = g_call.queries[1] =>
                /\ g_call.ret[1][1].id = r
                /\ g_call.ret[1][1].score = 0

\* C19 amended: a search_one with k >= 1 for the vector stored at row r
\* returns first the lowest row holding that vector (r itself when no earlier
\* row holds it), with score ||x||^2 + ||q||^2 - 2 x.q = 0; every returned
\* score is the squared L2 distance of its row to the query.
C19_SelfQueryTop1Lowest ==
    (g_call.op = "search_one" /\ g_call.k >= 1) =>
        LET query == g_call.queries[1]
            L     == g_call.ret[1]
            same  == {r \in 0..(current_count - 1) : BufRow(d_db, r, dim) = query}
        IN  /\ \A i \in 1..Len(L) :
                 L[i].score = SqDist(BufRow(d_db, L[i].id, dim), query)
            /\ same # {} =>
                 /\ L[1].id \in same
                 /\ \A r \in same : L[1].id <= r
                 /\ L[1].score = 0
                 /\ L[1].score = d_db_norms[L[1].id + 1] + d_q_norms[1]
                                 - 2 * SumTo([j \in 1..dim |-> BufRow(d_db, L[1].id, dim)[j] * query[j]], dim)

\* The query is the non-zero vector of rows 0 and 1, and row 0 comes first.
C19_Witness ==
    /\ g_call.op = "search_one"
    /\ g_call.k >= 1
    /\ current_count = 2
    /\ BufRow(d_db, 0, dim) = BufRow(d_db, 1, dim)
    /\ g_call.queries[1] = BufRow(d_db, 1, dim)
    /\ SqDist(g_call.queries[1], [j \in 1..dim |-> 0]) > 0
    /\ g_call.ret[1][1].id = 0

----------------------------------------------------------------------------
\* C20: in every state reached by open/replay, insert and remove, auto_id
\* equals the length of auto_row, and straight after a successful insert
\* get_row of the returned auto id is the row inserted, also when the log that
\* was replayed holds deletes.
C20_NextIdIsArrayLength ==
    /\ [](auto_id = Len(auto_row))
    /\ [][\A a \in AutoIds :
            (call'.op = "insert" /\ call'.ret = <<a>>) =>
                /\ a = auto_id
                /\ get_row(a)' = call'.row]_vars

\* An insert that succeeded on a log holding a delete.
C20_Witness ==
    /\ InsertSucceeded
    /\ h_removed # {}
    /\ call.ret = <<Len(auto_row) - 1>>
    /\ Len(auto_row) >= 2
    /\ get_row(Len(auto_row) - 1) = call.row
    /\ \E i \in 1..NumRecords : RecOp(i) = OP_DELETE

----------------------------------------------------------------------------
\* GpuIndex::load_data, fed from a MatrixSlab.

\* compute_norms_kernel over all idx < rows.
compute_norms_kernel(data, rows, cols) ==
    [idx \in 1..rows |-> SumTo([i \in 1..cols |-> data[(idx - 1) * cols + i]
                                                  * data[(idx - 1) * cols + i]], cols)]

\* What d_db holds after the cudaMemcpy of load_data for n rows.  Within
\* max_vectors it is the slab's first n rows.  Beyond it the copy runs past
\* the allocation: the runtime either performs it or rejects it, and then the
\* kernel reads the old buffer and the memory after it.
LoadedRows(f, n) ==
    LET host == [i \in 1..(n * dim) |-> DataAt(f, i)]
    IN  IF n <= max_vectors
        THEN {host}
        ELSE {host} \cup {ReadBuf(d_db, n * dim, g) : g \in Coords}

\* load_data(slab), the slab being the open MatrixSlab.
load_data ==
    /\ m_obj.open
    /\ current_count' = m_file.count
    /\ \E db \in LoadedRows(m_file, m_file.count) :
        /\ d_db' = db
        /\ d_db_norms' = compute_norms_kernel(db, m_file.count, dim)
    /\ g_call' = [op |-> "load_data", arg |-> m_file.count]
    /\ UNCHANGED <<max_vectors, dim, d_queries, d_q_norms, d_results, vars, m_vars>>

\* The slab grows to one row more than the largest index capacity.
SlabInputs(n, d) == IF n <= MaxVectors THEN {OneHot(n, d)} ELSE {}

LoadInit ==
    /\ \E d \in Dims, c \in 0..MaxVectors :
        /\ GpuIndex(d, c)
        /\ m_file = NewHeader(d)
        /\ m_obj = map_file(NewHeader(d).size)
        /\ m_call = [op |-> "create", arg |-> d]
    /\ IdSlabAbsent

LoadNext ==
    \/ load_data
    \/ \E v \in AddInputs(current_count, dim) : add_single_vector(v)
    \/ \E v \in SlabInputs(m_file.count, m_file.dim) : add_vector(v)

SpecLoad == LoadInit /\ [][LoadNext]_all_vars

\* C21: in every state reached by construction followed by load_data (from a
\* slab of any count) and add_single_vector calls, current_count <= max_vectors.
C21_CountWithinCapacity ==
    current_count <= max_vectors

----------------------------------------------------------------------------
\* The shell (main.cpp): its write commands on an empty database.

\* Program constants.
GLOBAL_DIM   == 128
MAX_CAPACITY == 1000000
UidBase      == 100000     \* gen and import number their rows from here

\* The user ids typed, and the vectors generated, typed or imported.
ShellUids    == {1} \cup {UidBase + i : i \in 0..MaxUser}
ShellVectors == {Uniform(GLOBAL_DIM, c) : c \in Coords}

\* The three calls every write command makes for one vector: the row is the
\* slab's count before the append, and no result is looked at.
write_row(uid, v) ==
    /\ do_add_vector(v)
    /\ do_insert_duplicate(uid, m_file.count) \/ do_insert_new(uid, m_file.count)
    /\ do_add_single_vector_full(v) \/ do_add_single_vector_stores(v)

\* A command that returns to the prompt without a call.
skip == UNCHANGED all_vars

\* add <uid>.
cmd_add(uid, v) ==
    IF get_row_from_user(uid) # MinusOne THEN skip ELSE write_row(uid, v)

\* put <uid> <floats>.
cmd_put(uid, v) ==
    IF Len(v) # GLOBAL_DIM THEN skip
    ELSE IF get_row_from_user(uid) # MinusOne THEN skip
    ELSE write_row(uid, v)

\* One pass of the loop of gen <n>: uid++ and get_count() advance together,
\* so pass i of a command uses the uid UidBase + count that a new command
\* would start from, and gen <n> is n steps of this action.
cmd_gen(v) == write_row(UidBase + m_file.count, v)

\* One pass of the loop of import <path>, v being the floats read from a file
\* of GLOBAL_DIM columns.
cmd_import(v) == write_row(UidBase + m_file.count, v)

\* The state at the first prompt when no database file exists.
ShellInit ==
    /\ IdSlab_new
    /\ m_file = NewHeader(GLOBAL_DIM)
    /\ m_obj = map_file(NewHeader(GLOBAL_DIM).size)
    /\ m_call = [op |-> "create", arg |-> GLOBAL_DIM]
    /\ GpuIndex(GLOBAL_DIM, MAX_CAPACITY)

ShellNext ==
    \/ \E uid \in ShellUids, v \in ShellVectors : cmd_add(uid, v)
    \/ \E uid \in ShellUids, v \in ShellVectors \cup {<<1>>} : cmd_put(uid, v)
    \/ \E v \in ShellVectors : cmd_gen(v)
    \/ \E v \in ShellVectors : cmd_import(v)

SpecShell == ShellInit /\ [][ShellNext]_all_vars

\* C22: after any sequence of add, put, gen and import on an empty database,
\* the slab's count equals auto_id, every live user id's row is below the
\* slab's count, and no two live user ids have the same row.
C22_RowsMatchInserts ==
    /\ m_file.count = auto_id
    /\ \A u \in DOMAIN user_auto :
        /\ ~IsNegative(get_row_from_user(u))
        /\ ToU64(get_row_from_user(u)) < m_file.count
    /\ \A u1, u2 \in DOMAIN user_auto :
        get_row_from_user(u1) = get_row_from_user(u2) => u1 = u2

====
